---- MODULE Spec2Model ----
(***************************************************************************)
(* The GEDCOM element tree of gedcom/element/element.py and the accessor   *)
(* SourceElement.get_repository_pointer of gedcom/element/source.py.       *)
(*                                                                         *)
(* Strings are sequences of one-character strings.  An element is a record *)
(* in the sequence heap, addressed by its index; 0 is None.  The level is  *)
(* a Python int (unbounded), kept as its decimal digits in run-length      *)
(* form, so that a level whose decimal text has some 250 digits (the only  *)
(* way, besides the terminator, to give a generated CONC/CONT child a      *)
(* small budget) is a small value.                                         *)
(***************************************************************************)
EXTENDS Integers, Sequences, FiniteSets, TLC

VARIABLES
    heap,        \* the elements allocated so far, a sequence of records
    pc,          \* the frame of the set_multi_line_value call in progress
    last,        \* the most recent call of set_multi_line_value: its arguments
    pre,         \* the heap as it was when that call started
    reattached   \* add_child_element was given an element that was not detached

vars == <<heap, pc, last, pre, reattached>>

(***************************************************************************)
(* Bounds of the model.                                                    *)
(***************************************************************************)
MaxLen == 3      \* longest text handed to set_multi_line_value
MaxPre == 2      \* elements added under the root before the call under study
MaxTree == 3     \* elements and child-list entries the caller makes in SpecTree

\* Room for the root, the elements built before the call (each with a child
\* of its own), and the children two calls in a row can generate (a call
\* generates at most one child per character or line break of its text).
MaxNodes == 1 + 2 * MaxPre + 2 * MaxLen

(***************************************************************************)
(* Characters and strings.                                                 *)
(***************************************************************************)
SP == " "
LF == "\n"
CR == "\r"
Breaks == {LF, CR}
Alphabet == {"a", SP, LF, CR}

Texts == UNION {[1..k -> Alphabet] : k \in 0..MaxLen}

\* Python's slice s[k:]
From(s, k) == SubSeq(s, k + 1, Len(s))
\* Python's slice s[:k]
Upto(s, k) == SubSeq(s, 1, k)

\* index of the first line break of s, 0 when there is none
RECURSIVE FirstBreak(_, _)
FirstBreak(s, i) ==
    IF i > Len(s) THEN 0
    ELSE IF s[i] \in Breaks THEN i
    ELSE FirstBreak(s, i + 1)

\* str.splitlines(): the lines of s without their line breaks; "\r\n" is one
\* line break; a line break at the end opens no further line.
RECURSIVE SplitLines(_)
SplitLines(s) ==
    IF s = <<>> THEN <<>>
    ELSE LET i == FirstBreak(s, 1) IN
         IF i = 0 THEN <<s>>
         ELSE LET w == IF s[i] = CR /\ i < Len(s) /\ s[i + 1] = LF THEN 2 ELSE 1
              IN <<Upto(s, i - 1)>> \o SplitLines(From(s, i + w - 1))

(***************************************************************************)
(* gedcom.tags                                                             *)
(***************************************************************************)
GEDCOM_TAG_CONCATENATION == <<"C", "O", "N", "C">>
GEDCOM_TAG_CONTINUED == <<"C", "O", "N", "T">>
GEDCOM_TAG_FAMILY == <<"F", "A", "M">>
GEDCOM_TAG_INDIVIDUAL == <<"I", "N", "D", "I">>
GEDCOM_TAG_NOTE == <<"N", "O", "T", "E">>
GEDCOM_TAG_OBJECT == <<"O", "B", "J", "E">>
GEDCOM_TAG_REPOSITORY == <<"R", "E", "P", "O">>
GEDCOM_TAG_SOURCE == <<"S", "O", "U", "R">>
GEDCOM_TAG_SUBMITTER == <<"S", "U", "B", "M">>
GEDCOM_TAG_SUBMISSION == <<"S", "U", "B", "N">>
GEDCOM_TAG_HEADER == <<"H", "E", "A", "D">>

ReservedTags == {GEDCOM_TAG_CONCATENATION, GEDCOM_TAG_CONTINUED}

(***************************************************************************)
(* Levels: Python ints.  [neg, runs] is the int whose decimal digits, most *)
(* significant first, are runs[1].n times the digit runs[1].d, then        *)
(* runs[2].n times runs[2].d, ...; neg is its sign.  The model uses the    *)
(* levels from -1 up.                                                      *)
(***************************************************************************)
Run(d, n) == [d |-> d, n |-> n]
Nat10(runs) == [neg |-> FALSE, runs |-> runs]
MinusOne == [neg |-> TRUE, runs |-> <<Run(1, 1)>>]
Zero == Nat10(<<Run(0, 1)>>)
\* 10^k, k >= 1
TenTo(k) == Nat10(<<Run(1, 1), Run(0, k)>>)
\* 10^k - 1, k >= 1
Nines(k) == Nat10(<<Run(9, k)>>)

DigitChar(d) == <<"0", "1", "2", "3", "4", "5", "6", "7", "8", "9">>[d + 1]

RECURSIVE Digits(_)
Digits(runs) ==
    IF runs = <<>> THEN <<>>
    ELSE [i \in 1..runs[1].n |-> DigitChar(runs[1].d)] \o Digits(Tail(runs))

\* str(level)
Str(level) == (IF level.neg THEN <<"-">> ELSE <<>>) \o Digits(level.runs)

\* level < 0
IsNegative(level) == level.neg

\* adjacent runs of the same digit are one run
RECURSIVE Merge(_)
Merge(runs) ==
    IF Len(runs) < 2 THEN runs
    ELSE IF runs[1].d = runs[2].d
         THEN Merge(<<Run(runs[1].d, runs[1].n + runs[2].n)>> \o From(runs, 2))
         ELSE <<runs[1]>> \o Merge(Tail(runs))

\* a run shortened by its last digit
Shorter(r) == IF r.n > 1 THEN <<Run(r.d, r.n - 1)>> ELSE <<>>

\* level + 1
Inc(level) ==
    IF level.neg THEN Zero      \* -1 + 1
    ELSE LET r == level.runs
             m == Len(r)
         IN IF r[m].d < 9
            THEN Nat10(Merge(Upto(r, m - 1) \o Shorter(r[m]) \o <<Run(r[m].d + 1, 1)>>))
            ELSE IF m = 1
            THEN Nat10(<<Run(1, 1), Run(0, r[m].n)>>)
            ELSE Nat10(Merge(Upto(r, m - 2) \o Shorter(r[m - 1])
                             \o <<Run(r[m - 1].d + 1, 1), Run(0, r[m].n)>>))

(***************************************************************************)
(* Element: the fields and the pure methods.                               *)
(***************************************************************************)
None == 0
MAX_LINE_LENGTH == 255

\* Element.__init__, before its call of set_multi_line_value
Element(cls, level, pointer, tag, value, crlf) ==
    [cls |-> cls, level |-> level, pointer |-> pointer, tag |-> tag,
     value |-> value, crlf |-> crlf, children |-> <<>>, parent |-> None]

\* get_tag(), which SourceElement overrides
GetTag(e) == IF e.cls = "SourceElement" THEN GEDCOM_TAG_SOURCE ELSE e.tag

\* to_gedcom_string(recursive=False)
ToGedcomString(e) ==
    LET r1 == Str(e.level)
        r2 == IF e.pointer # <<>> THEN r1 \o <<SP>> \o e.pointer ELSE r1
        r3 == r2 \o <<SP>> \o GetTag(e)
        r4 == IF e.value # <<>> THEN r3 \o <<SP>> \o e.value ELSE r3
        r5 == r4 \o e.crlf
    IN IF IsNegative(e.level) THEN <<>> ELSE r5

\* AvailableCharacters with the terminator left out of the count
AvailableCharacters_OffByOne(e) ==
    LET element_characters == Len(ToGedcomString(e)) - Len(e.crlf)
    IN IF element_characters > MAX_LINE_LENGTH THEN 0
       ELSE MAX_LINE_LENGTH - element_characters

\* __available_characters
AvailableCharacters(e) ==
    LET element_characters == Len(ToGedcomString(e))
    IN IF element_characters > MAX_LINE_LENGTH THEN 0
       ELSE MAX_LINE_LENGTH - element_characters

\* the while loop of __line_length: the spaces just before the cut
RECURSIVE TrailingSpaces(_, _, _)
TrailingSpaces(line, available_characters, spaces) ==
    IF spaces < available_characters
       /\ line[available_characters - spaces] = SP
    THEN TrailingSpaces(line, available_characters, spaces + 1)
    ELSE spaces

\* LineLength without the step back over the spaces before the cut
LineLength_NoBackoff(e, line) ==
    IF Len(line) <= AvailableCharacters(e) THEN Len(line)
    ELSE AvailableCharacters(e)

\* __line_length
LineLength(e, line) ==
    LET total_characters == Len(line)
        available_characters == AvailableCharacters(e)
        spaces == TrailingSpaces(line, available_characters, 0)
    IN IF total_characters <= available_characters THEN total_characters
       ELSE IF spaces = available_characters THEN available_characters
       ELSE available_characters - spaces

\* get_multi_line_value: rest is the children not yet visited
RECURSIVE JoinChildren(_, _, _, _)
JoinChildren(h, rest, result, last_crlf) ==
    IF rest = <<>> THEN result
    ELSE LET element == h[Head(rest)]
             tag == GetTag(element)
         IN IF tag = GEDCOM_TAG_CONCATENATION
            THEN JoinChildren(h, Tail(rest), result \o element.value, element.crlf)
            ELSE IF tag = GEDCOM_TAG_CONTINUED
            THEN JoinChildren(h, Tail(rest),
                              result \o last_crlf \o element.value, element.crlf)
            ELSE JoinChildren(h, Tail(rest), result, last_crlf)

GetMultiLineValue(h, n) == JoinChildren(h, h[n].children, h[n].value, h[n].crlf)

\* SourceElement.get_repository_pointer: the loop assigns the value of each
\* repository child to the local name reference; the name returned,
\* repository_pointer, is assigned only before the loop.
RECURSIVE RepositoryLoop(_, _, _, _)
RepositoryLoop(h, rest, repository_pointer, reference) ==
    IF rest = <<>> THEN repository_pointer
    ELSE IF GetTag(h[Head(rest)]) = GEDCOM_TAG_REPOSITORY
         THEN RepositoryLoop(h, Tail(rest), repository_pointer, h[Head(rest)].value)
         ELSE RepositoryLoop(h, Tail(rest), repository_pointer, reference)

GetRepositoryPointer(h, n) == RepositoryLoop(h, h[n].children, <<>>, <<>>)

(***************************************************************************)
(* Element: the methods that change the tree, as functions of the heap.    *)
(***************************************************************************)
\* the class new_child_element constructs for a tag
ChildClass(tag) ==
    IF tag = GEDCOM_TAG_FAMILY THEN "FamilyElement"
    ELSE IF tag = GEDCOM_TAG_INDIVIDUAL THEN "IndividualElement"
    ELSE IF tag = GEDCOM_TAG_NOTE THEN "NoteElement"
    ELSE IF tag = GEDCOM_TAG_OBJECT THEN "ObjectElement"
    ELSE IF tag = GEDCOM_TAG_REPOSITORY THEN "RepositoryElement"
    ELSE IF tag = GEDCOM_TAG_SOURCE THEN "SourceElement"
    ELSE IF tag = GEDCOM_TAG_SUBMITTER THEN "SubmitterElement"
    ELSE IF tag = GEDCOM_TAG_SUBMISSION THEN "SubmissionElement"
    ELSE IF tag = GEDCOM_TAG_HEADER THEN "HeaderElement"
    ELSE "Element"

\* the element new_child_element constructs under p
ChildElement(h, p, tag, pointer, value) ==
    Element(ChildClass(tag), Inc(h[p].level), pointer, tag, value, h[p].crlf)

\* AddChild without the call of set_parent_element
AddChild_NoParent(h, p, e) ==
    [h EXCEPT ![p].children = Append(@, e)]

\* add_child_element (with set_parent_element)
AddChild(h, p, e) ==
    [h EXCEPT ![p].children = Append(@, e), ![e].parent = p]

\* Purge that removes the CONC children only
Purge_KeepsContinued(h, n) ==
    [h EXCEPT ![n].value = <<>>,
              ![n].children = SelectSeq(@, LAMBDA c :
                                  GetTag(h[c]) # GEDCOM_TAG_CONCATENATION)]

\* Purge that does not clear the value
Purge_KeepsValue(h, n) ==
    [h EXCEPT ![n].children = SelectSeq(@, LAMBDA c : GetTag(h[c]) \notin ReservedTags)]

\* the first two statements of set_multi_line_value: the value is cleared
\* and the children tagged CONC or CONT leave the child list
Purge(h, n) ==
    [h EXCEPT ![n].value = <<>>,
              ![n].children = SelectSeq(@, LAMBDA c : GetTag(h[c]) \notin ReservedTags)]

\* SetBoundedValue that stores the value uncut
SetBoundedValue_Whole(h, n, value) ==
    [h EXCEPT ![n].value = value]

\* __set_bounded_value: the heap after it; it returns LineLength(h[n], value)
SetBoundedValue(h, n, value) ==
    [h EXCEPT ![n].value = Upto(value, LineLength(h[n], value))]

\* AddBoundedChild that hangs a CONC child under the CONC or CONT element
\* created just before it
AddBoundedChild_Chained(h, p, tag, value) ==
    LET q == IF tag = GEDCOM_TAG_CONCATENATION /\ GetTag(h[Len(h)]) \in ReservedTags
                THEN Len(h) ELSE p
        c == Len(h) + 1
        h1 == Append(h, ChildElement(h, q, tag, <<>>, <<>>))
        h2 == [h1 EXCEPT ![q].children = Append(@, c), ![c].parent = q]
    IN [h2 EXCEPT ![c].value = SubSeq(value, 1, LineLength(h2[c], value))]

\* __add_bounded_child: new_child_element(tag) with its defaults (the
\* constructor's set_multi_line_value('') changes nothing), then
\* __set_bounded_value on the child; the child is Len(h) + 1
AddBoundedChild(h, p, tag, value) ==
    LET c == Len(h) + 1
        h1 == Append(h, ChildElement(h, p, tag, <<>>, <<>>))
        h2 == AddChild(h1, p, c)
    IN SetBoundedValue(h2, c, value)

\* what __add_bounded_child returns
BoundedChildLength(h, p, tag, value) ==
    LineLength(ChildElement(h, p, tag, <<>>, <<>>), value)

(***************************************************************************)
(* The inputs the specifications draw from.                                *)
(***************************************************************************)
\* levels whose decimal text has 1, 247 and 251 digits; the level after
\* Nines(247) has one digit more than it
Levels == {MinusOne, Zero, TenTo(246), Nines(247), TenTo(250)}
Crlfs == {<<LF>>, <<CR, LF>>}
RootKinds ==
    {[cls |-> "Element", tag |-> GEDCOM_TAG_NOTE, pointer |-> <<>>],
     [cls |-> "SourceElement", tag |-> GEDCOM_TAG_SOURCE,
      pointer |-> <<"@", "S", "1", "@">>]}
ChildTags == {GEDCOM_TAG_CONTINUED, GEDCOM_TAG_REPOSITORY}
ChildValues == {<<"r", "r">>}
TreeTexts == {<<"a", "a", "a", LF, "a">>}
TreeCrlfs == {<<LF>>}

Ids == 1..Len(heap)
\* the element Init constructs
Root == 1

(***************************************************************************)
(* The state.                                                              *)
(***************************************************************************)
IdleFrame(state) ==
    [state |-> state, self |-> None, string |-> <<>>, index |-> 0,
     lines |-> <<>>, attach |-> None]

NoCall == [op |-> "none", self |-> None, value |-> <<>>, repeat |-> FALSE, base |-> 0]

\* no call is in progress: the caller may call a method
Idle == pc.state \in {"idle", "done"}

\* One element, constructed with the default value '' (the constructor's
\* set_multi_line_value('') leaves it without children).
Init ==
    /\ \E level \in Levels, kind \in RootKinds, crlf \in Crlfs :
          heap = <<Element(kind.cls, level, kind.pointer, kind.tag, <<>>, crlf)>>
    /\ pc = IdleFrame("idle")
    /\ last = NoCall
    /\ pre = heap
    /\ reattached = FALSE

(***************************************************************************)
(* set_multi_line_value, in steps: the statements up to the first pass of  *)
(* a loop, then one pass of the while loop of __add_concatenation or one   *)
(* pass of the for loop over the further lines at a time, then the return. *)
(* pc.string and pc.index are the locals of __add_concatenation, pc.lines  *)
(* the lines the for loop has not visited.                                 *)
(***************************************************************************)
\* the call of set_multi_line_value(value) on n in heap h starts: the value
\* is cleared, the CONC/CONT children leave, the first line is stored
BeginCall(h, op, n, value, attach, repeat) ==
    LET purged == Purge(h, n)
        lines == SplitLines(value)
    IN /\ heap' = IF lines = <<>> THEN purged
                  ELSE SetBoundedValue(purged, n, Head(lines))
       /\ pc' = [state |-> "concat", self |-> n,
                 string |-> IF lines = <<>> THEN <<>>
                            ELSE From(Head(lines), LineLength(purged[n], Head(lines))),
                 index |-> 0,
                 lines |-> IF lines = <<>> THEN <<>> ELSE Tail(lines),
                 attach |-> attach]
       /\ pre' = h
       /\ last' = [op |-> op, self |-> n, value |-> value, repeat |-> repeat,
                   base |-> Len(h)]

\* the caller calls n.set_multi_line_value(value)
SetMultiLineValue(n, value) ==
    /\ Idle
    /\ BeginCall(heap, "set_multi_line_value", n, value, None, FALSE)
    /\ UNCHANGED reattached

\* the caller calls set_multi_line_value again, same element, same value
SetAgain ==
    /\ pc.state = "done"
    /\ last.op = "set_multi_line_value"
    /\ ~last.repeat
    /\ BeginCall(heap, "set_multi_line_value", last.self, last.value, None, TRUE)
    /\ UNCHANGED reattached

\* the caller calls p.new_child_element(tag, pointer, value): the child is
\* constructed (its constructor calls set_multi_line_value(value) on it) and
\* is appended to p when the constructor has returned
NewChildElement(p, tag, pointer, value) ==
    /\ Idle
    /\ Len(heap) < MaxNodes
    /\ BeginCall(Append(heap, ChildElement(heap, p, tag, pointer, value)),
                 "new_child_element", Len(heap) + 1, value, p, FALSE)
    /\ UNCHANGED reattached

\* the caller constructs Element(level, pointer, tag, value, crlf)
Construct(level, pointer, tag, value, crlf) ==
    /\ Idle
    /\ Len(heap) < MaxNodes
    /\ BeginCall(Append(heap, Element("Element", level, pointer, tag, value, crlf)),
                 "Element", Len(heap) + 1, value, None, FALSE)
    /\ UNCHANGED reattached

\* one pass of the while loop of __add_concatenation
ConcatPass ==
    /\ pc.state = "concat"
    /\ pc.index < Len(pc.string)
    /\ Len(heap) < MaxNodes
    /\ heap' = AddBoundedChild(heap, pc.self, GEDCOM_TAG_CONCATENATION,
                               From(pc.string, pc.index))
    /\ pc' = [pc EXCEPT !.index = @ + BoundedChildLength(heap, pc.self,
                                        GEDCOM_TAG_CONCATENATION,
                                        From(pc.string, pc.index))]
    /\ UNCHANGED <<last, pre, reattached>>

\* one pass of the for loop of set_multi_line_value, up to the while loop
\* of its call of __add_concatenation
ContinuedLine ==
    /\ pc.state = "concat"
    /\ pc.index >= Len(pc.string)
    /\ pc.lines # <<>>
    /\ Len(heap) < MaxNodes
    /\ LET line == Head(pc.lines)
           n == BoundedChildLength(heap, pc.self, GEDCOM_TAG_CONTINUED, line)
       IN /\ heap' = AddBoundedChild(heap, pc.self, GEDCOM_TAG_CONTINUED, line)
          /\ pc' = [pc EXCEPT !.string = From(line, n), !.index = 0,
                              !.lines = Tail(pc.lines)]
    /\ UNCHANGED <<last, pre, reattached>>

\* set_multi_line_value returns; in new_child_element the new child is then
\* appended to its parent
Return ==
    /\ pc.state = "concat"
    /\ pc.index >= Len(pc.string)
    /\ pc.lines = <<>>
    /\ heap' = IF pc.attach # None THEN AddChild(heap, pc.attach, pc.self) ELSE heap
    /\ pc' = IdleFrame("done")
    /\ UNCHANGED <<last, pre, reattached>>

(***************************************************************************)
(* add_child_element                                                       *)
(***************************************************************************)
RECURSIVE IsAncestor(_, _, _, _)
\* a is p or is reached from p by at most fuel parent references
IsAncestor(h, a, p, fuel) ==
    \/ a = p
    \/ /\ fuel > 0
       /\ h[p].parent # None
       /\ IsAncestor(h, a, h[p].parent, fuel - 1)

\* e is in no tree: it has no parent, is in no child list, and is not the
\* root of the tree p is in
Detached(h, p, e) ==
    /\ h[e].parent = None
    /\ \A q \in 1..Len(h) : \A i \in 1..Len(h[q].children) : h[q].children[i] # e
    /\ ~IsAncestor(h, e, p, Len(h))

\* the caller calls p.add_child_element(e)
AddChildElement(p, e) ==
    /\ Idle
    /\ heap' = AddChild(heap, p, e)
    /\ reattached' = (reattached \/ ~Detached(heap, p, e))
    /\ pc' = IdleFrame("idle")
    /\ UNCHANGED <<last, pre>>

(***************************************************************************)
(* The specifications.                                                     *)
(***************************************************************************)
\* Spec: children are added to the root, then set_multi_line_value is called
\* on the root, and called again with the same value.
Building == last.op # "set_multi_line_value" /\ Len(heap) <= MaxPre

Next ==
    \/ \E tag \in ChildTags, value \in ChildValues :
          Building /\ NewChildElement(Root, tag, <<>>, value)
    \/ \E value \in Texts :
          last.op # "set_multi_line_value" /\ SetMultiLineValue(Root, value)
    \/ SetAgain
    \/ ConcatPass
    \/ ContinuedLine
    \/ Return

Spec == Init /\ [][Next]_vars

\* SpecTree: the three methods that change the tree, and the constructor,
\* called in any order on any elements.
RECURSIVE Entries(_, _)
\* the number of entries of the child lists of the elements 1..n
Entries(h, n) == IF n = 0 THEN 0 ELSE Len(h[n].children) + Entries(h, n - 1)

TreeTags == {GEDCOM_TAG_CONCATENATION, GEDCOM_TAG_REPOSITORY}

\* the root is a NOTE with room for two characters
InitTree ==
    /\ Init
    /\ heap[Root].level = TenTo(246)
    /\ heap[Root].cls = "Element"
    /\ heap[Root].crlf = <<LF>>

NextTree ==
    \/ \E crlf \in TreeCrlfs :
          Len(heap) < MaxTree /\ Construct(Zero, <<>>, GEDCOM_TAG_NOTE, <<>>, crlf)
    \/ \E p \in Ids, tag \in TreeTags :
          Len(heap) < MaxTree /\ NewChildElement(p, tag, <<>>, <<>>)
    \/ \E p \in Ids, e \in Ids :
          Entries(heap, Len(heap)) < MaxTree /\ AddChildElement(p, e)
    \/ \E n \in Ids, value \in TreeTexts :
          Len(heap) < MaxTree /\ SetMultiLineValue(n, value)
    \/ ConcatPass
    \/ ContinuedLine
    \/ Return

SpecTree == InitTree /\ [][NextTree]_vars

(***************************************************************************)
(* Notions the claims are stated with.                                     *)
(***************************************************************************)
\* the call of set_multi_line_value recorded in last has returned
Done == pc.state = "done"
\* a call is in progress or has just returned
InCall == pc.state \in {"concat", "done"}
\* the elements the call recorded in last has created
Generated == (last.base + 1)..Len(heap)
\* the element of the call and the elements it has created
Produced == {last.self} \cup Generated

IsReserved(h, c) == GetTag(h[c]) \in ReservedTags
IsConc(h, c) == GetTag(h[c]) = GEDCOM_TAG_CONCATENATION

\* the length of the line e renders to, its terminator not counted
RenderedLineLength(e) ==
    LET r == ToGedcomString(e) IN IF r = <<>> THEN 0 ELSE Len(r) - Len(e.crlf)
\* the same for e with an empty value: level, pointer and tag
PrefixLength(e) == RenderedLineLength([e EXCEPT !.value = <<>>])

\* the budget of e: the characters available for its value
Budget(e) == AvailableCharacters([e EXCEPT !.value = <<>>])
\* the budget of the children set_multi_line_value generates under n
ChildBudget(h, n) ==
    AvailableCharacters(ChildElement(h, n, GEDCOM_TAG_CONCATENATION, <<>>, <<>>))

\* t is at the start of s
IsPrefix(t, s) == Len(t) <= Len(s) /\ Upto(s, Len(t)) = t

RECURSIVE OwnBreaksOnly(_, _)
\* every line break of v is an occurrence of the terminator crlf
OwnBreaksOnly(v, crlf) ==
    IF v = <<>> THEN TRUE
    ELSE IF IsPrefix(crlf, v) THEN OwnBreaksOnly(From(v, Len(crlf)), crlf)
    ELSE v[1] \notin Breaks /\ OwnBreaksOnly(Tail(v), crlf)

EndsWithBreak(v) == v # <<>> /\ v[Len(v)] \in Breaks

\* the children of n
Children(h, n) == {h[n].children[i] : i \in 1..Len(h[n].children)}

RECURSIVE Below(_, _, _)
\* the elements reached from those of set by child lists, set included
Below(h, set, fuel) ==
    LET more == set \cup UNION {Children(h, q) : q \in set}
    IN IF fuel = 0 \/ more = set THEN set ELSE Below(h, more, fuel - 1)

RECURSIVE Occurrences(_, _, _)
\* how often c occurs in the child lists of the elements 1..n
Occurrences(h, c, n) ==
    IF n = 0 THEN 0
    ELSE Len(SelectSeq(h[n].children, LAMBDA x : x = c)) + Occurrences(h, c, n - 1)

\* the parent/child relation of h is a tree
StrictTree(h) ==
    /\ \A c \in 1..Len(h) : Occurrences(h, c, Len(h)) <= 1
    /\ \A p \in 1..Len(h) : \A c \in Children(h, p) : h[c].parent = p
    /\ \A n \in 1..Len(h) : n \notin Below(h, Children(h, n), Len(h))

\* what the idempotence claim compares: the value, the children's tags and
\* values in order, and the reassembled value
Shape(h, n) ==
    <<h[n].value,
      [i \in 1..Len(h[n].children) |->
          <<GetTag(h[h[n].children[i]]), h[h[n].children[i]].value>>],
      GetMultiLineValue(h, n)>>

\* the first line of the text of the call and the budget of its element
FirstLine == Head(SplitLines(last.value))
SelfBudget == Budget(heap[last.self])

\* the case of the no-word-split claim: the first line is longer than the
\* budget, and the cut at the budget falls just after spaces that do not
\* fill the budget
CutAfterSpaces ==
    /\ SplitLines(last.value) # <<>>
    /\ SelfBudget >= 1
    /\ Len(FirstLine) > SelfBudget
    /\ FirstLine[SelfBudget] = SP
    /\ \E i \in 1..SelfBudget : FirstLine[i] # SP

RECURSIVE FirstNonSpace(_, _)
\* the index of the first character of line after position i that is no
\* space, 0 when there is none
FirstNonSpace(line, i) ==
    IF i >= Len(line) THEN 0
    ELSE IF line[i + 1] # SP THEN i + 1
    ELSE FirstNonSpace(line, i + 1)

(***************************************************************************)
(* The claims.                                                             *)
(***************************************************************************)

\* C1: after set_multi_line_value(v) on an element, for every v,
\* get_multi_line_value() on it returns v.
C1_RoundTrip ==
    Done => GetMultiLineValue(heap, last.self) = last.value

\* C2, as claimed: after set_multi_line_value(v), the element and every
\* CONC/CONT child the call generated render to a line of at most 255
\* characters, the terminator not counted.
C2_LineLengthClaimed ==
    Done => \A m \in Produced : RenderedLineLength(heap[m]) <= MAX_LINE_LENGTH

\* C2, amended: after set_multi_line_value(v), the element and every
\* CONC/CONT child the call generated render to a line of at most 255
\* characters, the terminator not counted, each provided that its level,
\* pointer and tag alone (its line with an empty value) do not exceed 255
\* characters.
C2_LineLength ==
    Done => \A m \in Produced :
               PrefixLength(heap[m]) <= MAX_LINE_LENGTH
                   => RenderedLineLength(heap[m]) <= MAX_LINE_LENGTH

\* C2 happens: a call has split its text, and the element's line is exactly
\* 255 characters long.
C2_Witness ==
    /\ Done
    /\ last.op = "set_multi_line_value"
    /\ Generated # {}
    /\ heap[last.self].value # <<>>
    /\ RenderedLineLength(heap[last.self]) = MAX_LINE_LENGTH

\* C3: every pass of the while loop of __add_concatenation consumes at
\* least one character of the remaining text (so the loop ends), whatever
\* the budget of the element and of the children it generates.
C3_Progress ==
    [][(/\ pc.state = "concat"
        /\ pc'.state = "concat"
        /\ pc'.lines = pc.lines
        /\ Len(heap') > Len(heap)) => pc'.index > pc.index]_vars

\* C4: after set_multi_line_value(v) on an element, none of the CONC/CONT
\* children it had before the call is in its child list, and its children
\* with other tags are all there, the same elements in the same order, each
\* with its subtree unchanged.
C4_Purge ==
    (Done /\ last.op = "set_multi_line_value") =>
        LET n == last.self
            before == pre[n].children
            after == heap[n].children
            kept == SelectSeq(before, LAMBDA c : ~IsReserved(pre, c))
        IN /\ \A c \in Children(pre, n) :
                 IsReserved(pre, c) => c \notin Children(heap, n)
           /\ SelectSeq(after, LAMBDA c : c <= Len(pre)) = kept
           /\ \A c \in Children(pre, n) :
                 ~IsReserved(pre, c) =>
                     \A d \in Below(pre, {c}, Len(pre)) : heap[d] = pre[d]

\* C4 happens: the element had CONC/CONT children and a child with another
\* tag that has a child of its own, and the call has generated children.
C4_Witness ==
    /\ Done
    /\ last.op = "set_multi_line_value"
    /\ Generated # {}
    /\ \E c \in Children(pre, last.self) : IsReserved(pre, c)
    /\ \E c \in Children(pre, last.self) :
          ~IsReserved(pre, c) /\ pre[c].children # <<>>

\* C5: calling set_multi_line_value(v) twice in a row leaves the element
\* with the same value, the same children (tags and values, in order) and
\* the same get_multi_line_value() as calling it once.
C5_Idempotent ==
    (Done /\ last.repeat) => Shape(heap, last.self) = Shape(pre, last.self)

\* C5 happens: the second of two calls in a row has returned, on an element
\* with other children, and has generated CONC and CONT children.
C5_Witness ==
    /\ Done
    /\ last.repeat
    /\ \E c \in Children(pre, last.self) : ~IsReserved(pre, c)
    /\ \E c \in Generated : IsConc(heap, c)
    /\ \E c \in Generated : ~IsConc(heap, c)

\* C6, as claimed: in every state reached by new_child_element,
\* add_child_element and set_multi_line_value calls, the parent/child
\* relation is a tree.
C6_StrictTreeClaimed == StrictTree(heap)

\* C6, amended: in every state reached by new_child_element,
\* add_child_element and set_multi_line_value calls, the parent/child
\* relation is a tree, provided add_child_element was only ever given an
\* element that had no parent, was in no child list and was not reached from
\* the receiver by parent references (the receiver included).
C6_StrictTree == ~reattached => StrictTree(heap)

\* C6 happens: a constructed element was added to a tree by
\* add_child_element, no call of it was given an attached element, and a
\* set_multi_line_value has generated children.
C6_Witness ==
    /\ ~reattached
    /\ Done
    /\ Generated # {}
    /\ \E c \in Ids : heap[c].level = Zero /\ heap[c].parent # None

\* C7, as claimed: when the first line is longer than the element's budget
\* and the cut at the budget falls just after spaces that do not fill the
\* budget, the value stored on the element does not end with a space and the
\* next generated CONC child begins at the first character after the cut
\* that is no space.
C7_NoWordSplitClaimed ==
    (Done /\ CutAfterSpaces) =>
        LET value == heap[last.self].value
            next == last.base + 1
            j == FirstNonSpace(FirstLine, SelfBudget)
        IN /\ value # <<>>
           /\ value[Len(value)] # SP
           /\ next \in Generated
           /\ IsConc(heap, next)
           /\ j # 0 => /\ heap[next].value # <<>>
                       /\ IsPrefix(heap[next].value, From(FirstLine, j - 1))

\* C7, amended: when the first line is longer than the element's budget and
\* the cut at the budget falls just after spaces that do not fill the
\* budget, the value stored on the element does not end with a space and the
\* next generated CONC child begins right where that value ends, with the
\* spaces before the cut: no character is left out.
C7_NoWordSplit ==
    (Done /\ CutAfterSpaces) =>
        LET value == heap[last.self].value
            next == last.base + 1
        IN /\ value # <<>>
           /\ value[Len(value)] # SP
           /\ next \in Generated
           /\ IsConc(heap, next)
           /\ heap[next].value # <<>>
           /\ heap[next].value[1] = SP
           /\ IsPrefix(value \o heap[next].value, FirstLine)

\* C7 happens: a call whose cut fell after spaces has returned.
C7_Witness == Done /\ CutAfterSpaces /\ last.op = "set_multi_line_value"

\* C8: get_repository_pointer of a source element with a repository child
\* returns the value of the last such child, and the empty string when there
\* is none.
C8_RepositoryPointer ==
    \A n \in Ids :
        heap[n].cls = "SourceElement" =>
            LET repos == SelectSeq(heap[n].children,
                             LAMBDA c : GetTag(heap[c]) = GEDCOM_TAG_REPOSITORY)
            IN GetRepositoryPointer(heap, n) =
                   IF repos = <<>> THEN <<>> ELSE heap[repos[Len(repos)]].value

\* C9, as claimed: when a line needs more than one concatenation chunk, each
\* further CONC element is a child of the CONC element created just before.
C9_ChainClaimed ==
    InCall => \A m \in Generated :
                 (m - 1 \in Generated /\ IsConc(heap, m) /\ IsConc(heap, m - 1))
                     => heap[m].parent = m - 1

\* C9, amended: every CONC and CONT element the call generates, a further
\* chunk of a line included, is a direct child of the element the call is
\* on, one level below it, without children of its own, and they are at the
\* end of its child list in the order of their creation.
C9_Flat ==
    InCall =>
        /\ \A m \in Generated :
              /\ IsReserved(heap, m)
              /\ heap[m].parent = last.self
              /\ heap[m].level = Inc(heap[last.self].level)
              /\ heap[m].children = <<>>
        /\ SelectSeq(heap[last.self].children, LAMBDA c : c > last.base)
              = [i \in 1..(Len(heap) - last.base) |-> last.base + i]

\* C9 happens: a call has created two CONC elements in a row.
C9_Witness ==
    /\ Done
    /\ \E m \in Generated : m - 1 \in Generated /\ IsConc(heap, m) /\ IsConc(heap, m - 1)

\* C10: on an element whose generated children have a budget of at least 1,
\* for every v that does not end with a line break and whose line breaks are
\* all occurrences of the element's terminator, set_multi_line_value(v)
\* followed by get_multi_line_value() returns v, whatever children the
\* element had and whatever its own budget is.
C10_RestrictedRoundTrip ==
    (/\ Done
     /\ ChildBudget(heap, last.self) >= 1
     /\ ~EndsWithBreak(last.value)
     /\ OwnBreaksOnly(last.value, heap[last.self].crlf))
        => GetMultiLineValue(heap, last.self) = last.value

\* C10 happens: the element has a budget of 0 and had a CONT child, the text
\* has two lines, and the call has generated a CONC and a CONT child.
C10_Witness ==
    /\ Done
    /\ last.op = "set_multi_line_value"
    /\ ChildBudget(heap, last.self) >= 1
    /\ SelfBudget = 0
    /\ ~EndsWithBreak(last.value)
    /\ OwnBreaksOnly(last.value, heap[last.self].crlf)
    /\ Len(SplitLines(last.value)) = 2
    /\ \E c \in Children(pre, last.self) : IsReserved(pre, c)
    /\ \E c \in Generated : IsConc(heap, c)
    /\ \E c \in Generated : ~IsConc(heap, c)

====
